---- MODULE Spec2Model ----
(***************************************************************************)
(* Warbler: users, messages, follows and likes in one relational store,    *)
(* and the Flask request handlers of app.py that read and change them.     *)
(* Every handler is one action: the before_request hook that loads g.user, *)
(* the handler body and its commit.  SpecConc splits the like toggle into  *)
(* its read and its commit so that two requests can overlap.  SpecRank     *)
(* applies the suggestion query to every Follows table over a fixed set of *)
(* users.                                                                  *)
(***************************************************************************)
EXTENDS Integers, Sequences, FiniteSets, TLC

VARIABLES users, messages, follows, likes, session, nextId, resp, hist, txn

vars == <<users, messages, follows, likes, session, nextId, resp, hist, txn>>

tables == <<users, messages, follows, likes>>

----------------------------------------------------------------------------
(* Bounds of the model and the inputs of the requests *)

\* Largest user id the users_id_seq sequence hands out.
MaxUserId == 2

\* Largest number of rows of generator/messages.csv.
MaxMsgs == 1

\* Number of users of the ranking specification.
NumRankUsers == 3

\* The browsers (Flask sessions) that send requests.
Sessions == {"s1", "s2"}

Usernames == {"alice", "bob"}

Emails == {"a@x.io", "b@x.io"}

\* The password every account is created with, and one that matches no account.
GoodPassword == "secret1"

Passwords == {GoodPassword, "wrong00"}

\* A form whose validators fail: DataRequired on an empty field, Length(min=6)
\* on an empty password.
BlankForm == [username |-> "", email |-> "", password |-> ""]

\* What is posted to /signup and /users/profile.
UserForms ==
    {[username |-> u, email |-> e, password |-> p] :
        u \in Usernames, e \in Emails, p \in Passwords} \cup {BlankForm}

SignupForms == {f \in UserForms : f.password # "wrong00"}

\* What is posted to /login.
LoginForms ==
    {[username |-> u, email |-> "", password |-> p] : u \in Usernames, p \in Passwords}
        \cup {BlankForm}

\* Python's None: the absent session key, g.user of an anonymous request, the
\* result of Query.get on a missing id.  Ids start at 1.
None == 0

UserIds == 1..MaxUserId

MessageIds == 1..(MaxMsgs + 1)

Min(a, b) == IF a < b THEN a ELSE b

----------------------------------------------------------------------------
(* models.py *)

\* A row of the follows table.
FollowRow(followed, follower) ==
    [user_being_followed_id |-> followed, user_following_id |-> follower]

\* A row of the likes table.
LikeRow(user_id, message_id) == [user_id |-> user_id, message_id |-> message_id]

\* bcrypt.generate_password_hash: what is stored is never the plaintext.
Hash(password) == <<"bcrypt", password>>

\* bcrypt.check_password_hash
CheckPasswordHash(hashed, password) == hashed = Hash(password)

\* User.followers: the users who follow user_id.
Followers(user_id) ==
    {f.user_following_id : f \in {r \in follows : r.user_being_followed_id = user_id}}

\* User.following: the users user_id follows.
Following(user_id) ==
    {f.user_being_followed_id : f \in {r \in follows : r.user_following_id = user_id}}

\* User.authenticate: the id of the user with that username and password, or None
\* (the code's False).
Authenticate(username, password) ==
    LET found == {id \in DOMAIN users : users[id].username = username}
    IN  IF found = {} THEN None
        ELSE LET id == CHOOSE i \in found : TRUE
             IN  IF CheckPasswordHash(users[id].password, password) THEN id ELSE None

UniqueViolation_UsernameOnly(id, username, email) ==
    \E o \in DOMAIN users \ {id} : users[o].username = username

\* The unique constraints of users.email and users.username: would a row with
\* this username and email, stored under id, clash with another row?
UniqueViolation(id, username, email) ==
    \E o \in DOMAIN users \ {id} :
        users[o].username = username \/ users[o].email = email

\* The store without row `id` of a table kept as a function of its primary key.
Without(table, id) == [k \in DOMAIN table \ {id} |-> table[k]]

\* ON DELETE CASCADE of messages.user_id.
MessagesAfterDelete(user_id) ==
    [k \in {m \in DOMAIN messages : messages[m].user_id # user_id} |-> messages[k]]

\* ON DELETE CASCADE of both columns of follows.
FollowsAfterDelete(user_id) ==
    {r \in follows : r.user_being_followed_id # user_id /\ r.user_following_id # user_id}

LikesAfterDelete_UserOnly(user_id) == {r \in likes : r.user_id # user_id}

\* ON DELETE CASCADE of likes.user_id, and of likes.message_id for the messages
\* that go with the user.
LikesAfterDelete(user_id) ==
    {r \in likes : r.user_id # user_id /\ r.message_id \in DOMAIN MessagesAfterDelete(user_id)}

----------------------------------------------------------------------------
(* app.py: helpers *)

\* limit=5 of the homepage's call of suggested_users_for
SuggestLimit == 5

\* .limit(100) of the follow feed
FeedLimit == 100

\* .limit(50) of the fallback feed
FallbackLimit == 50

IsCandidate_Following(c, user) == c # user /\ ~(\E f \in Following(c) : f = user)

\* .filter(User.id != user.id, ~User.followers.any(id=user.id))
IsCandidate(c, user) == c # user /\ ~(\E f \in Followers(c) : f = user)

\* func.count(Follows.user_following_id) over the outer join on
\* Follows.user_being_followed_id == User.id, grouped by User.id
FollowerCount(c) == Cardinality({r \in follows : r.user_being_followed_id = c})

RanksBefore_Ascending(a, b) ==
    \/ FollowerCount(a) < FollowerCount(b)
    \/ FollowerCount(a) = FollowerCount(b) /\ a < b

\* .order_by(func.count(Follows.user_following_id).desc(), User.id.asc())
RanksBefore(a, b) ==
    \/ FollowerCount(a) > FollowerCount(b)
    \/ FollowerCount(a) = FollowerCount(b) /\ a < b

RECURSIVE Ordered(_)
Ordered(S) ==
    IF S = {} THEN <<>>
    ELSE LET first == CHOOSE a \in S : \A b \in S \ {a} : RanksBefore(a, b)
         IN  <<first>> \o Ordered(S \ {first})

\* .limit(n)
Limit(seq, n) == SubSeq(seq, 1, Min(n, Len(seq)))

SuggestedUsersFor(user, limit) ==
    IF user = None THEN <<>>
    ELSE Limit(Ordered({c \in DOMAIN users : IsCandidate(c, user)}), limit)

\* Message.query.filter(...).order_by(Message.timestamp.desc()).limit(n).all()
\* over the messages S: every answer the store may give (rows of equal
\* timestamp come in any order).
RecentFirst(S, n) ==
    LET k == Min(n, Cardinality(S))
    IN  {q \in [1..k -> S] :
            /\ \A i, j \in 1..k :
                 i < j => /\ q[i] # q[j]
                          /\ messages[q[i]].timestamp >= messages[q[j]].timestamp
            /\ \A m \in S \ {q[i] : i \in 1..k} :
                 \A i \in 1..k : messages[m].timestamp <= messages[q[i]].timestamp}

\* add_user_to_g: g.user of a request of session s.
CurrentUser(s) ==
    IF session[s] # None /\ session[s] \in DOMAIN users THEN session[s] ELSE None

\* do_login
DoLogin(s, user_id) == [session EXCEPT ![s] = user_id]

DoLogout_KeepsKey(s) == session

\* do_logout
DoLogout(s) == [session EXCEPT ![s] = None]

\* What a request answered: the route, how it ended, and what the homepage (or
\* the suggestion query) handed to its template.
Respond(kind, status) ==
    [kind |-> kind, status |-> status, user |-> None, feed |-> <<>>,
     notice |-> FALSE, suggested |-> <<>>, limit |-> 0]

\* History of the last request when it was a like toggle that committed: who
\* toggled what, the likes table before it, and whether the request before it
\* was the same toggle.
NoHist == [user |-> None, msg |-> None, before |-> {}, second |-> FALSE]

NoTxn == [op |-> "none", user |-> None, msg |-> None]

----------------------------------------------------------------------------
(* seed.py: the store the application starts on *)

Injective(f) == \A i, j \in DOMAIN f : i # j => f[i] # f[j]

\* run_seeds: the rows of users.csv, messages.csv and follows.csv.  Ids come
\* from the tables' sequences; the foreign keys and unique constraints hold of
\* what was inserted.
RunSeeds(n, names, emails, k, authors, stamps, edges) ==
    /\ users = [i \in 1..n |-> [username |-> names[i], email |-> emails[i],
                                password |-> Hash(GoodPassword)]]
    /\ messages = [m \in 1..k |-> [user_id |-> authors[m], timestamp |-> stamps[m]]]
    /\ follows = edges
    /\ likes = {}
    /\ nextId = n + 1

Init ==
    /\ \E n \in 0..Min(MaxUserId, Cardinality(Usernames)) :
         \E names \in {f \in [1..n -> Usernames] : Injective(f)} :
         \E emails \in {f \in [1..n -> Emails] : Injective(f)} :
         \E k \in (IF n = 0 THEN {0} ELSE 0..MaxMsgs) :
         \E authors \in [1..k -> 1..n] :
         \E stamps \in [1..k -> 1..MaxMsgs] :
         \E edges \in SUBSET {FollowRow(a, b) : a \in 1..n, b \in 1..n} :
            RunSeeds(n, names, emails, k, authors, stamps, edges)
    /\ session = [s \in Sessions |-> None]
    /\ resp = Respond("start", "ok")
    /\ hist = NoHist
    /\ txn = [s \in Sessions |-> NoTxn]

----------------------------------------------------------------------------
(* app.py: the routes *)

\* form.validate_on_submit() of UserAddForm and EditProfileForm
ValidateUserForm(form) == form.username # "" /\ form.email # "" /\ form.password # ""

\* form.validate_on_submit() of LoginForm
ValidateLoginForm(form) == form.username # "" /\ form.password # ""

\* POST /signup
Signup(s, form) ==
    /\ UNCHANGED <<messages, follows, likes, txn>>
    /\ hist' = NoHist
    /\ IF ~ValidateUserForm(form)
       THEN /\ resp' = Respond("signup", "form")
            /\ UNCHANGED <<users, session, nextId>>
       ELSE IF UniqueViolation(nextId, form.username, form.email)
       THEN /\ resp' = Respond("signup", "conflict")
            /\ UNCHANGED <<users, session, nextId>>
       ELSE /\ nextId <= MaxUserId
            /\ users' = (nextId :> [username |-> form.username, email |-> form.email,
                                    password |-> Hash(form.password)]) @@ users
            /\ nextId' = nextId + 1
            /\ session' = DoLogin(s, nextId)
            /\ resp' = Respond("signup", "ok")

\* POST /login
Login(s, form) ==
    /\ UNCHANGED <<users, messages, follows, likes, nextId, txn>>
    /\ hist' = NoHist
    /\ IF ~ValidateLoginForm(form)
       THEN /\ resp' = Respond("login", "form")
            /\ UNCHANGED session
       ELSE LET user == Authenticate(form.username, form.password)
            IN  IF user # None
                THEN /\ session' = DoLogin(s, user)
                     /\ resp' = Respond("login", "ok")
                ELSE /\ resp' = Respond("login", "invalid")
                     /\ UNCHANGED session

\* /logout
Logout(s) ==
    /\ UNCHANGED <<users, messages, follows, likes, nextId, txn>>
    /\ hist' = NoHist
    /\ session' = DoLogout(s)
    /\ resp' = Respond("logout", "ok")

\* GET /users
ListUsers(s) ==
    /\ UNCHANGED <<users, messages, follows, likes, session, nextId, txn>>
    /\ hist' = NoHist
    /\ resp' = Respond("list_users", "ok")

\* User.query.get_or_404(user_id) and nothing written: the body of users_show,
\* show_likes and, behind the login check, show_following and users_followers.
ShowUser(kind, user_id) ==
    /\ UNCHANGED <<users, messages, follows, likes, session, nextId, txn>>
    /\ hist' = NoHist
    /\ resp' = IF user_id \in DOMAIN users THEN Respond(kind, "ok")
               ELSE Respond(kind, "not_found")

\* The login check of a protected route, when it fails.
Unauthorized(kind) ==
    /\ UNCHANGED <<users, messages, follows, likes, session, nextId, txn>>
    /\ hist' = NoHist
    /\ resp' = Respond(kind, "unauthorized")

\* GET /users/<user_id>
UsersShow(s, user_id) == ShowUser("users_show", user_id)

\* GET /users/<user_id>/following
ShowFollowing(s, user_id) ==
    IF CurrentUser(s) = None THEN Unauthorized("show_following")
    ELSE ShowUser("show_following", user_id)

\* GET /users/<user_id>/followers
UsersFollowers(s, user_id) ==
    IF CurrentUser(s) = None THEN Unauthorized("users_followers")
    ELSE ShowUser("users_followers", user_id)

\* POST /users/follow/<follow_id>
AddFollow(s, follow_id) ==
    IF CurrentUser(s) = None THEN Unauthorized("add_follow")
    ELSE IF follow_id \notin DOMAIN users THEN ShowUser("add_follow", follow_id)
    ELSE /\ follows' = follows \cup {FollowRow(follow_id, CurrentUser(s))}
         /\ resp' = Respond("add_follow", "ok")
         /\ hist' = NoHist
         /\ UNCHANGED <<users, messages, likes, session, nextId, txn>>

\* POST /users/stop-following/<follow_id>: User.query.get gives None for a
\* missing id, and list.remove raises ValueError for what is not in the list.
StopFollowing(s, follow_id) ==
    IF CurrentUser(s) = None THEN Unauthorized("stop_following")
    ELSE LET followed_user == IF follow_id \in DOMAIN users THEN follow_id ELSE None
         IN  /\ hist' = NoHist
             /\ UNCHANGED <<users, messages, likes, session, nextId, txn>>
             /\ IF followed_user \in Following(CurrentUser(s))
                THEN /\ follows' = follows \ {FollowRow(followed_user, CurrentUser(s))}
                     /\ resp' = Respond("stop_following", "ok")
                ELSE /\ resp' = Respond("stop_following", "server_error")
                     /\ UNCHANGED follows

\* POST /users/profile
Profile(s, form) ==
    IF CurrentUser(s) = None THEN Unauthorized("profile")
    ELSE LET me == CurrentUser(s)
         IN  /\ hist' = NoHist
             /\ UNCHANGED <<messages, follows, likes, session, nextId, txn>>
             /\ IF ~ValidateUserForm(form)
                THEN /\ resp' = Respond("profile", "form")
                     /\ UNCHANGED users
                ELSE IF Authenticate(users[me].username, form.password) = None
                THEN /\ resp' = Respond("profile", "invalid")
                     /\ UNCHANGED users
                ELSE IF UniqueViolation(me, form.username, form.email)
                THEN /\ resp' = Respond("profile", "conflict")
                     /\ UNCHANGED users
                ELSE /\ users' = [users EXCEPT ![me].username = form.username,
                                               ![me].email = form.email]
                     /\ resp' = Respond("profile", "ok")

\* POST /users/delete
DeleteUser(s) ==
    IF CurrentUser(s) = None THEN Unauthorized("delete_user")
    ELSE LET me == CurrentUser(s)
         IN  /\ session' = DoLogout(s)
             /\ users' = Without(users, me)
             /\ messages' = MessagesAfterDelete(me)
             /\ follows' = FollowsAfterDelete(me)
             /\ likes' = LikesAfterDelete(me)
             /\ resp' = Respond("delete_user", "ok")
             /\ hist' = NoHist
             /\ UNCHANGED <<nextId, txn>>

ToggledLikes_AlwaysAdd(user_id, message_id) == likes \cup {LikeRow(user_id, message_id)}

\* toggle_like, lines 265-269: delete the row when it is there, add it otherwise.
ToggledLikes(user_id, message_id) ==
    IF LikeRow(user_id, message_id) \in likes
    THEN likes \ {LikeRow(user_id, message_id)}
    ELSE likes \cup {LikeRow(user_id, message_id)}

IsOwnMessage_Never(message_id, user_id) == FALSE

\* toggle_like, line 261
IsOwnMessage(message_id, user_id) == messages[message_id].user_id = user_id

\* POST /messages/<message_id>/like
ToggleLike(s, message_id) ==
    IF CurrentUser(s) = None THEN Unauthorized("toggle_like")
    ELSE LET me == CurrentUser(s)
         IN  /\ UNCHANGED <<users, messages, follows, session, nextId, txn>>
             /\ IF message_id \notin DOMAIN messages
                THEN /\ resp' = Respond("toggle_like", "not_found")
                     /\ hist' = NoHist
                     /\ UNCHANGED likes
                ELSE IF IsOwnMessage(message_id, me)
                THEN /\ resp' = Respond("toggle_like", "forbidden")
                     /\ hist' = NoHist
                     /\ UNCHANGED likes
                ELSE /\ likes' = ToggledLikes(me, message_id)
                     /\ resp' = Respond("toggle_like", "ok")
                     /\ hist' = [user |-> me, msg |-> message_id, before |-> likes,
                                 second |-> hist.user = me /\ hist.msg = message_id]

\* GET /users/<user_id>/likes
ShowLikes(s, user_id) == ShowUser("show_likes", user_id)

\* GET /
Homepage(s) ==
    /\ UNCHANGED <<users, messages, follows, likes, session, nextId, txn>>
    /\ hist' = NoHist
    /\ IF CurrentUser(s) = None
       THEN resp' = Respond("homepage", "anon")
       ELSE LET me == CurrentUser(s)
                ids == Following(me) \cup {me}
                mine == {m \in DOMAIN messages : messages[m].user_id \in ids}
            IN  IF Following(me) = {}
                THEN \E feed \in RecentFirst(DOMAIN messages, FallbackLimit) :
                        resp' = [Respond("homepage", "ok") EXCEPT
                                   !.user = me, !.feed = feed, !.notice = TRUE,
                                   !.limit = SuggestLimit,
                                   !.suggested = SuggestedUsersFor(me, SuggestLimit)]
                ELSE \E feed \in RecentFirst(mine, FeedLimit) :
                        resp' = [Respond("homepage", "ok") EXCEPT
                                   !.user = me, !.feed = feed,
                                   !.limit = SuggestLimit,
                                   !.suggested = SuggestedUsersFor(me, SuggestLimit)]

\* One request of session s, handled from before_request to the response.
Request(s) ==
        \/ \E form \in SignupForms : Signup(s, form)
        \/ \E form \in LoginForms : Login(s, form)
        \/ Logout(s)
        \/ ListUsers(s)
        \/ \E id \in UserIds : UsersShow(s, id)
        \/ \E id \in UserIds : ShowFollowing(s, id)
        \/ \E id \in UserIds : UsersFollowers(s, id)
        \/ \E id \in UserIds : AddFollow(s, id)
        \/ \E id \in UserIds : StopFollowing(s, id)
        \/ \E form \in UserForms : Profile(s, form)
        \/ DeleteUser(s)
        \/ \E m \in MessageIds : ToggleLike(s, m)
        \/ \E id \in UserIds : ShowLikes(s, id)
        \/ Homepage(s)

Next == \E s \in Sessions : Request(s)

Spec == Init /\ [][Next]_vars

----------------------------------------------------------------------------
(* Two like requests at once: each request is its own transaction, the reads *)
(* of toggle_like (lines 255-269) and its commit (line 271) are two steps.   *)

\* toggle_like up to the commit: the pending INSERT or DELETE of the session.
ToggleLikeBegin(s, message_id) ==
    /\ txn[s].op = "none"
    /\ IF \/ CurrentUser(s) = None
          \/ message_id \notin DOMAIN messages
          \/ IsOwnMessage(message_id, CurrentUser(s))
       THEN ToggleLike(s, message_id)
       ELSE /\ txn' = [txn EXCEPT ![s] =
                        [op |-> IF LikeRow(CurrentUser(s), message_id) \in likes
                                THEN "delete" ELSE "insert",
                         user |-> CurrentUser(s), msg |-> message_id]]
            /\ UNCHANGED <<users, messages, follows, likes, session, nextId, resp, hist>>

\* db.session.commit() of toggle_like.  The INSERT fails on the primary key
\* (user_id, message_id) when the row is there by now and on a foreign key
\* when the user or the message is gone; nothing in toggle_like catches the
\* IntegrityError.  A DELETE that matches no row only warns.
ToggleLikeCommit(s) ==
    LET t == txn[s]
        row == LikeRow(t.user, t.msg)
    IN  /\ t.op # "none"
        /\ txn' = [txn EXCEPT ![s] = NoTxn]
        /\ hist' = [NoHist EXCEPT !.user = t.user, !.msg = t.msg]
        /\ UNCHANGED <<users, messages, follows, session, nextId>>
        /\ IF t.op = "delete"
           THEN /\ likes' = likes \ {row}
                /\ resp' = Respond("toggle_like", "ok")
           ELSE IF \/ row \in likes
                   \/ t.user \notin DOMAIN users
                   \/ t.msg \notin DOMAIN messages
           THEN /\ resp' = Respond("toggle_like", "server_error")
                /\ UNCHANGED likes
           ELSE /\ likes' = likes \cup {row}
                /\ resp' = Respond("toggle_like", "ok")

NextConc ==
    \E s \in Sessions :
        \/ \E form \in LoginForms : Login(s, form)
        \/ Logout(s)
        \/ DeleteUser(s)
        \/ \E m \in MessageIds : ToggleLikeBegin(s, m)
        \/ ToggleLikeCommit(s)

SpecConc == Init /\ [][NextConc]_vars

----------------------------------------------------------------------------
(* The suggestion query on its own: every follows table over NumRankUsers   *)
(* users, every user (or none) and every limit up to the number of users.   *)

InitRank ==
    /\ users = [i \in 1..NumRankUsers |->
                  [username |-> ToString(i), email |-> ToString(i),
                   password |-> Hash(GoodPassword)]]
    /\ messages = <<>>
    /\ follows \in SUBSET {FollowRow(a, b) : a \in 1..NumRankUsers, b \in 1..NumRankUsers}
    /\ likes = {}
    /\ nextId = NumRankUsers + 1
    /\ session = [s \in Sessions |-> None]
    /\ resp = Respond("start", "ok")
    /\ hist = NoHist
    /\ txn = [s \in Sessions |-> NoTxn]

\* One call suggested_users_for(user, limit).
Suggest(user, limit) ==
    /\ resp.kind = "start"
    /\ resp' = [Respond("suggested_users_for", "ok") EXCEPT
                  !.user = user, !.limit = limit,
                  !.suggested = SuggestedUsersFor(user, limit)]
    /\ UNCHANGED <<users, messages, follows, likes, session, nextId, hist, txn>>

NextRank == \E user \in {None} \cup (1..NumRankUsers), limit \in 0..NumRankUsers : Suggest(user, limit)

SpecRank == InitRank /\ [][NextRank]_vars

----------------------------------------------------------------------------
(* The claims *)

\* C1: two successive toggle_like requests by the same user on the same message
\* (not the user's own), with no request in between, leave the likes table as it
\* was before the first: every toggle that commits flips the row (user, message)
\* and touches no other row, and the second of two restores the table.
C1_ToggleTwiceRestores ==
    [][\A s \in Sessions, m \in MessageIds :
          (resp'.kind = "toggle_like" /\ resp'.status = "ok" /\ ToggleLike(s, m)) =>
              LET row == LikeRow(CurrentUser(s), m)
              IN  /\ (row \in likes') # (row \in likes)
                  /\ likes' \ {row} = likes \ {row}
                  /\ (hist.user = CurrentUser(s) /\ hist.msg = m) => likes' = hist.before]_vars

\* Two toggles in a row have run on a row that was absent: present, then absent.
C1_Witness ==
    /\ resp.kind = "toggle_like" /\ resp.status = "ok"
    /\ hist.second
    /\ LikeRow(hist.user, hist.msg) \in hist.before
    /\ LikeRow(hist.user, hist.msg) \notin likes

\* C2: two like requests of one user for one message (not liked yet), run as
\* two transactions at once, leave one row, and the request that loses the
\* uniqueness conflict ends as a handled no-op, never as a server error: when
\* the user and the message of the last toggle are still there and the row is
\* in the table, that toggle did not end in a server error.
C2_ConcurrentLikeHandled ==
    (/\ resp.kind = "toggle_like"
     /\ hist.user \in DOMAIN users
     /\ hist.msg \in DOMAIN messages
     /\ LikeRow(hist.user, hist.msg) \in likes)
        => resp.status # "server_error"

\* C3: toggle_like by the author of the message is refused and leaves likes
\* unchanged; no likes row pairs a message with its author.
C3_NoSelfLike ==
    /\ [](\A r \in likes :
            r.message_id \in DOMAIN messages => messages[r.message_id].user_id # r.user_id)
    /\ [][\A s \in Sessions, m \in MessageIds :
            (/\ CurrentUser(s) # None
             /\ m \in DOMAIN messages
             /\ messages[m].user_id = CurrentUser(s)
             /\ ToggleLike(s, m))
                => (resp'.status = "forbidden" /\ likes' = likes)]_vars

\* An author asked to like their own message and was refused.
C3_Witness ==
    /\ resp.kind = "toggle_like" /\ resp.status = "forbidden"
    /\ \E s \in Sessions, m \in DOMAIN messages :
          CurrentUser(s) # None /\ messages[m].user_id = CurrentUser(s)

\* Every row references rows that exist.
NoOrphans ==
    /\ \A m \in DOMAIN messages : messages[m].user_id \in DOMAIN users
    /\ \A r \in follows :
          r.user_being_followed_id \in DOMAIN users /\ r.user_following_id \in DOMAIN users
    /\ \A r \in likes : r.user_id \in DOMAIN users /\ r.message_id \in DOMAIN messages

\* C4: after delete_user of user u there is no message of u, no follows row
\* with u on either side, no likes row of u or of a message u wrote, u is no
\* user any more and the session that asked carries no identity; and in every
\* state every row references existing users and messages.
C4_DeleteLeavesNoOrphans ==
    /\ []NoOrphans
    /\ [][\A s \in Sessions :
            (CurrentUser(s) # None /\ DeleteUser(s)) =>
                LET u == CurrentUser(s)
                    written == {m \in DOMAIN messages : messages[m].user_id = u}
                IN  /\ u \notin DOMAIN users'
                    /\ \A m \in DOMAIN messages' : messages'[m].user_id # u
                    /\ DOMAIN messages' \cap written = {}
                    /\ \A r \in follows' :
                          r.user_being_followed_id # u /\ r.user_following_id # u
                    /\ \A r \in likes' : r.user_id # u /\ r.message_id \notin written
                    /\ session'[s] = None]_vars

\* An account was deleted while another account is left.
C4_Witness ==
    /\ resp.kind = "delete_user" /\ resp.status = "ok"
    /\ DOMAIN users # {}
    /\ nextId > 1 + Cardinality(DOMAIN users)

\* No two users share a username or an email.
UniqueUsers ==
    \A a, b \in DOMAIN users :
        a # b => users[a].username # users[b].username /\ users[a].email # users[b].email

\* C5: a signup whose username or email is taken ends in a conflict, changes
\* no user and starts no session; a profile edit that would take another
\* user's username or email changes no user; no two users ever share a
\* username or an email.
C5_DuplicatesRejected ==
    /\ []UniqueUsers
    /\ [][\A s \in Sessions, form \in SignupForms :
            (/\ resp'.kind = "signup"
             /\ ValidateUserForm(form)
             /\ \E o \in DOMAIN users :
                   users[o].username = form.username \/ users[o].email = form.email
             /\ Signup(s, form))
                => (resp'.status = "conflict" /\ users' = users /\ session' = session)]_vars
    /\ [][\A s \in Sessions, form \in UserForms :
            (/\ resp'.kind = "profile"
             /\ CurrentUser(s) # None
             /\ ValidateUserForm(form)
             /\ \E o \in DOMAIN users \ {CurrentUser(s)} :
                   users[o].username = form.username \/ users[o].email = form.email
             /\ Profile(s, form))
                => (resp'.status \in {"conflict", "invalid"} /\ users' = users)]_vars

\* A signup was refused while one user holds a username and an e-mail and the
\* other username and e-mail are free.
C5_Witness ==
    /\ resp.kind = "signup" /\ resp.status = "conflict"
    /\ \E a \in DOMAIN users : DOMAIN users = {a}
    /\ nextId <= MaxUserId

\* C6: with S the ids the user follows together with the user's own id, the
\* home feed is the 50 most recent messages of all users with the fallback
\* notice when S holds only the user's id, and otherwise the 100 most recent
\* messages written by members of S without the notice.
C6_HomeFeed ==
    (resp.kind = "homepage" /\ resp.status = "ok") =>
        LET u == resp.user
            S == {r.user_being_followed_id : r \in {f \in follows : f.user_following_id = u}}
                    \cup {u}
        IN  IF S = {u}
            THEN /\ resp.notice
                 /\ resp.feed \in RecentFirst(DOMAIN messages, 50)
            ELSE /\ ~resp.notice
                 /\ resp.feed \in
                      RecentFirst({m \in DOMAIN messages : messages[m].user_id \in S}, 100)

\* C7 as stated: the suggestions never hold the user and never hold a user who
\* follows the user.
C7_NeverSuggestsFollowers ==
    (resp.kind \in {"homepage", "suggested_users_for"} /\ resp.status = "ok") =>
        \A i \in 1..Len(resp.suggested) :
            /\ resp.suggested[i] # resp.user
            /\ FollowRow(resp.user, resp.suggested[i]) \notin follows

\* C7, amended: the suggestions never hold the user and never hold a user the
\* user follows; a user who follows the user is suggested like any other.
C7_NeverSuggestsFollowed ==
    (resp.kind \in {"homepage", "suggested_users_for"} /\ resp.status = "ok") =>
        \A i \in 1..Len(resp.suggested) :
            /\ resp.suggested[i] # resp.user
            /\ resp.suggested[i] \in DOMAIN users
            /\ FollowRow(resp.suggested[i], resp.user) \notin follows

\* The homepage of a user who follows the only other user, who is left out.
C7_Witness ==
    /\ resp.kind = "homepage" /\ resp.status = "ok"
    /\ resp.suggested = <<>>
    /\ \E c \in DOMAIN users : c # resp.user /\ FollowRow(c, resp.user) \in follows

\* C8: suggested_users_for(user, limit) holds the candidates (every user but
\* `user` and those the query leaves out, the ones `user` follows) in the
\* order of their number of incoming follows rows, largest first, equal
\* numbers by ascending id, cut to the first `limit`; candidates nobody
\* follows are in it, all candidates are when they are fewer than `limit`, and
\* no user gives the empty list.
C8_RankedByFollowers ==
    (resp.kind = "suggested_users_for") =>
        LET u == resp.user
            r == resp.suggested
            incoming(c) == Cardinality({f \in follows : f.user_being_followed_id = c})
            before(a, b) ==
                incoming(a) > incoming(b) \/ (incoming(a) = incoming(b) /\ a < b)
            cands == IF u = None THEN {}
                     ELSE {c \in DOMAIN users : c # u /\ FollowRow(c, u) \notin follows}
        IN  /\ Len(r) = Min(resp.limit, Cardinality(cands))
            /\ \A i \in 1..Len(r) : r[i] \in cands
            /\ \A i, j \in 1..Len(r) : i < j => before(r[i], r[j])
            /\ \A c \in cands \ {r[i] : i \in 1..Len(r)} :
                  \A i \in 1..Len(r) : before(r[i], c)

\* Two suggestions, the larger id first because it has more followers, the
\* second with no follower at all.
C8_Witness ==
    /\ resp.kind = "suggested_users_for"
    /\ Len(resp.suggested) = 2
    /\ resp.suggested[1] > resp.suggested[2]
    /\ \A f \in follows : f.user_being_followed_id # resp.suggested[2]

\* C9: a request of a logged-in user that names a user id or message id that
\* does not exist ends in not-found and changes no table.
C9_MissingIdIsNotFound ==
    [][\A s \in Sessions :
          CurrentUser(s) # None =>
              /\ \A id \in UserIds \ DOMAIN users :
                    (\/ UsersShow(s, id) \/ ShowFollowing(s, id) \/ UsersFollowers(s, id)
                     \/ AddFollow(s, id) \/ StopFollowing(s, id) \/ ShowLikes(s, id))
                        => (resp'.status = "not_found" /\ tables' = tables)
              /\ \A m \in MessageIds \ DOMAIN messages :
                    ToggleLike(s, m) => (resp'.status = "not_found" /\ tables' = tables)]_vars

\* C10: a protected action of a session that carries no user id, or the id of
\* a user that is gone, is answered by the unauthorized redirect and changes
\* no table; logout leaves the session without a user id, and a session
\* without a user id changes a table only by a signup that succeeds.
C10_ProtectedNeedsLogin ==
    [][\A s \in Sessions :
          /\ (resp'.kind = "logout" /\ Logout(s)) => session'[s] = None
          /\ (session[s] = None \/ session[s] \notin DOMAIN users) =>
                ((\/ \E id \in UserIds : AddFollow(s, id) \/ StopFollowing(s, id)
                  \/ \E form \in UserForms : Profile(s, form)
                  \/ DeleteUser(s)
                  \/ \E m \in MessageIds : ToggleLike(s, m))
                    => (resp'.status = "unauthorized" /\ tables' = tables))
          /\ (session[s] = None /\ tables' # tables /\ Request(s)) =>
                (resp'.kind = "signup" /\ resp'.status = "ok" /\ session'[s] # None)]_vars

\* A protected action was refused while a session carries the id of a deleted
\* user and no session is logged in.
C10_Witness ==
    /\ resp.kind = "add_follow" /\ resp.status = "unauthorized"
    /\ \E s \in Sessions : session[s] # None /\ session[s] \notin DOMAIN users
    /\ \A s \in Sessions : CurrentUser(s) = None
    /\ DOMAIN users # {}

====
